---- MODULE Spec2Model ----
(***************************************************************************)
(* Fumagalli, Motta, Tarantino (2020): merger policy, innovation and       *)
(* killer acquisitions.  A model of Fumagalli_Motta_Tarantino_2020:        *)
(* BaseModel, MergerPolicyModel and OptimalMergerPolicy of Models.py, and  *)
(* the earlier BaseModel revision of Model.py.                             *)
(*                                                                         *)
(* Numbers.  The source computes with floats.  Here every amount of money  *)
(* (profits, consumer surplus, costs, assets, benefit, harm) is an integer *)
(* number of money units, one unit being 1/4; success_probability is the   *)
(* numerator of a fraction over PDen; a value of the cumulative            *)
(* distribution function is the numerator of a fraction over FScale.  A    *)
(* quotient of the source is kept as a pair <<numerator, denominator>>     *)
(* and compared by cross-multiplication, so no comparison is rounded.      *)
(***************************************************************************)
EXTENDS Integers, Sequences, FiniteSets, TLC

VARIABLES
    cls,                \* the class whose constructor ran ("none" before it)
    status,             \* "new", "constructed", or the kind of error raised
    error,              \* the message of the failed assertion ("" if none)
    params,             \* the constructor's arguments, kept in the object
    early_bid_attempt,  \* self._early_bid_attempt  (None is {})
    late_bid_attempt,   \* self._late_bid_attempt
    early_takeover,     \* self._early_takeover
    late_takeover,      \* self._late_takeover
    summary_result,     \* what the last call of summary() returned
    optimal_policy      \* what the last call of get_optimal_merger_policy() returned

vars == <<cls, status, error, params, early_bid_attempt, late_bid_attempt,
          early_takeover, late_takeover, summary_result, optimal_policy>>

\* Optional[...] of the source: None, or one value.
None == {}
Some(x) == {x}
Value(o) == CHOOSE x \in o : TRUE

----------------------------------------------------------------------------
\* Fixed-point representation.

\* success_probability = numerator / PDen
PDen == 2
\* a probability returned by the distribution function = numerator / FScale
FScale == 100000
\* tolerated harm and the thresholds h0, h1, h2 are compared over this scale
HScale == FScale * PDen

\* scipy.stats.norm.cdf at x = k/8, k = -32..32, rounded to 1/FScale.
\* One money unit is 1/4, so k counts eighths: money * PDen.
NormCdfHalfWidth == 32
\* From x = 67/8 on the float the function returns is exactly 1.0.
NormCdfSaturation == 67
NormCdfTable ==
    << 3, 5, 9, 14, 23, 37, 58, 89,
       135, 202, 298, 433, 621, 877, 1222, 1679,
       2275, 3040, 4006, 5208, 6681, 8457, 10565, 13029,
       15866, 19079, 22663, 26599, 30854, 35383, 40129, 45026,
       50000, 54974, 59871, 64617, 69146, 73401, 77337, 80921,
       84134, 86971, 89435, 91543, 93319, 94792, 95994, 96960,
       97725, 98321, 98778, 99123, 99379, 99567, 99702, 99798,
       99865, 99911, 99942, 99963, 99977, 99986, 99991, 99995,
       99997 >>

\* MergerPolicyModel._get_cdf_value: value is money * PDen (eighths).
\* Below the table the distribution keeps its first tabulated value; above
\* it the value is the largest one below 1, and 1 from the saturation on.
get_cdf_value(value) ==
    IF value >= NormCdfSaturation THEN FScale
    ELSE IF value > NormCdfHalfWidth THEN FScale - 1
    ELSE IF value < -NormCdfHalfWidth THEN NormCdfTable[1]
    ELSE NormCdfTable[value + NormCdfHalfWidth + 1]

\* A quotient n/d of the source, and its comparisons (d # 0).
Quot(n, d) == <<n, d>>
Norm(q) == IF q[2] < 0 THEN <<-q[1], -q[2]>> ELSE q
QLt(a, b) == Norm(a)[1] * Norm(b)[2] < Norm(b)[1] * Norm(a)[2]
QGe(a, b) == ~QLt(a, b)
QMax(a, b) == IF QLt(a, b) THEN b ELSE a
Max(a, b) == IF a < b THEN b ELSE a

\* The magnitude 2^60 (in money units) of a parameter.  Doubles of that
\* magnitude are 2^8 apart, more than twice any sum of the parameters
\* below it, so the double nearest to the sum of a multiple of 2^60 and of
\* such parameters is the multiple.
Huge == 4096

\* The result of a float addition or subtraction whose exact value is x.
Float(x) ==
    IF x >= Huge \div 2 THEN ((x + Huge \div 2) \div Huge) * Huge
    ELSE IF -x >= Huge \div 2 THEN -(((Huge \div 2 - x) \div Huge) * Huge)
    ELSE x

----------------------------------------------------------------------------
\* BaseModel (Models.py): the derived welfare values.

w_with_innovation(m) == m.cs_with_innovation + m.incumbent_profit_with_innovation

w_without_innovation(m) ==
    m.cs_without_innovation + m.incumbent_profit_without_innovation

w_duopoly(m) ==
    Float(m.cs_duopoly + m.startup_profit_duopoly + m.incumbent_profit_duopoly)

\* BaseModel._check_assumption_one .. five: TRUE when the assertion passes.
\* Inequalities with success_probability are multiplied through by PDen.
check_assumption_one(m) ==
    m.incumbent_profit_with_innovation
        > m.incumbent_profit_duopoly + m.startup_profit_duopoly

check_assumption_two(m) ==
    m.startup_profit_duopoly
        > m.incumbent_profit_with_innovation - m.incumbent_profit_without_innovation

check_assumption_three(m) ==
    m.success_probability * m.startup_profit_duopoly > PDen * m.development_costs

check_assumption_four(m) ==
    m.success_probability * (w_with_innovation(m) - w_without_innovation(m))
        > PDen * m.development_costs

check_assumption_five(m) ==
    /\ m.private_benefit - m.development_costs < 0
    /\ 0 < PDen * m.private_benefit
             - (m.success_probability * m.startup_profit_duopoly
                - PDen * m.development_costs)

\* BaseModel._check_preconditions: the message of the first assertion that
\* fails, "" when all pass.
check_preconditions(m) ==
    IF ~(m.tolerated_harm >= 0) THEN "Level of harm has to be bigger than 0"
    ELSE IF ~(m.private_benefit > 0) THEN "Private benefit has to be bigger than 0"
    ELSE IF ~(0 < m.success_probability /\ m.success_probability <= PDen)
        THEN "Success probability of development has to be between 0 and 1"
    ELSE IF ~(0 < m.startup_assets /\ m.startup_assets < m.development_costs)
        THEN "Startup has not enough assets for development"
    ELSE IF ~(m.incumbent_profit_without_innovation > m.incumbent_profit_duopoly)
        THEN "Profit of the incumbent has to be bigger without the innovation than in the duopoly"
    ELSE IF ~(m.incumbent_profit_with_innovation > m.incumbent_profit_without_innovation)
        THEN "Profit of the incumbent has to be bigger with the innovation than without the innovation"
    ELSE IF ~(m.cs_with_innovation >= m.cs_without_innovation)
        THEN "Consumer surplus with the innovation has to weakly bigger than without the innovation"
    ELSE IF ~check_assumption_one(m) THEN "A1 not satisfied (p.7)"
    ELSE IF ~check_assumption_two(m) THEN "A2 not satisfied (p.7)"
    ELSE IF ~check_assumption_three(m) THEN "A3 not satisfied (p.8)"
    ELSE IF ~check_assumption_five(m) THEN "A5 not satisfied (p.8)"
    ELSE ""

\* The postconditions with the check of A4 left out.
check_postconditions_without_assumption_four(m) ==
    IF ~(/\ w_without_innovation(m) < w_with_innovation(m)
         /\ w_with_innovation(m) < w_duopoly(m))
        THEN "Ranking of total welfare not valid (p.7)"
    ELSE ""

\* BaseModel._check_postconditions
check_postconditions(m) ==
    IF ~(/\ w_without_innovation(m) < w_with_innovation(m)
         /\ w_with_innovation(m) < w_duopoly(m))
        THEN "Ranking of total welfare not valid (p.7)"
    ELSE IF ~check_assumption_four(m) THEN "A4 not satisfied (p.8)"
    ELSE ""

\* BaseModel.__init__: the preconditions, then the postconditions.
BaseModel_init(m) ==
    LET failed == check_preconditions(m)
    IN  IF failed # "" THEN failed ELSE check_postconditions(m)

----------------------------------------------------------------------------
\* BaseModel of the earlier revision, Model.py.

\* Model.py, BaseModel._check_preconditions: another order of the checks,
\* and the source's own form of A5.
Model_check_preconditions(m) ==
    IF ~(m.tolerated_harm >= 0) THEN "Level of harm has to be bigger than 0"
    ELSE IF ~(m.private_benefit > 0) THEN "Private benefit has to be bigger than 0"
    ELSE IF ~(m.incumbent_profit_without_innovation > m.incumbent_profit_duopoly)
        THEN "Profit of the incumbent has to be bigger without the innovation than in the duopoly"
    ELSE IF ~(m.incumbent_profit_with_innovation > m.incumbent_profit_without_innovation)
        THEN "Profit of the incumbent has to be bigger with the innovation than without the innovation"
    ELSE IF ~(m.cs_with_innovation >= m.cs_without_innovation)
        THEN "Consumer surplus with the innovation has to weakly bigger than without the innovation"
    ELSE IF ~(m.incumbent_profit_with_innovation
                > m.incumbent_profit_duopoly + m.startup_profit_duopoly)
        THEN "A1 not satisfied (p.7)"
    ELSE IF ~(m.startup_profit_duopoly
                > m.incumbent_profit_with_innovation
                  - m.incumbent_profit_without_innovation)
        THEN "A2 not satisfied (p.7)"
    ELSE IF ~(0 < m.success_probability /\ m.success_probability <= PDen)
        THEN "Success probability of development has to be between 0 and 1"
    ELSE IF ~(m.success_probability * m.startup_profit_duopoly
                > PDen * m.development_costs)
        THEN "A3 not satisfied (p.8)"
    ELSE IF ~(/\ m.private_benefit - m.development_costs < 0
              /\ 0 < m.private_benefit
                       * (m.success_probability * m.startup_profit_duopoly
                          - PDen * m.development_costs))
        THEN "A5 not satisfied (p.8)"
    ELSE IF ~(0 < m.startup_assets /\ m.startup_assets < m.development_costs)
        THEN "Startup has not enough assets for development"
    ELSE ""

\* Model.py, BaseModel._check_post_conditions
Model_check_post_conditions(m) ==
    IF ~(/\ w_without_innovation(m) < w_with_innovation(m)
         /\ w_with_innovation(m) < w_duopoly(m))
        THEN "Ranking of total welfare not valid (p.7)"
    ELSE IF ~(m.success_probability
                * (w_with_innovation(m) - w_without_innovation(m))
                > PDen * m.development_costs)
        THEN "A4 not satisfied (p.8)"
    ELSE ""

\* Model.py, BaseModel.__init__
Model_BaseModel_init(m) ==
    IF Model_check_preconditions(m) # "" THEN Model_check_preconditions(m)
    ELSE Model_check_post_conditions(m)

----------------------------------------------------------------------------
\* MergerPolicyModel (Models.py): thresholds.
\* Asset thresholds are money * PDen; h0, h1, h2 are money * HScale.

asset_threshold(m) ==
    PDen * m.private_benefit
        - (m.success_probability * m.startup_profit_duopoly
           - PDen * m.development_costs)

asset_threshold_cdf(m) == get_cdf_value(asset_threshold(m))

asset_threshold_late_takeover(m) ==
    PDen * m.private_benefit
        - (m.success_probability * m.incumbent_profit_with_innovation
           - PDen * m.development_costs)

asset_threshold_late_takeover_cdf(m) ==
    get_cdf_value(asset_threshold_late_takeover(m))

calculate_h0(m) ==
    Max((FScale - asset_threshold_cdf(m))
            * (m.success_probability * Float(w_duopoly(m) - w_with_innovation(m)))
        - asset_threshold_cdf(m)
            * (m.success_probability
                   * (w_with_innovation(m) - w_without_innovation(m))
               - PDen * m.development_costs),
        0)

calculate_h1(m) ==
    (FScale - asset_threshold_cdf(m))
        * Float(m.success_probability * Float(w_duopoly(m) - w_without_innovation(m))
                    - PDen * m.development_costs)

calculate_h2(m) ==
    Max(HScale * Float(w_duopoly(m) - w_with_innovation(m)),
        (FScale - asset_threshold_late_takeover_cdf(m))
            * (m.success_probability
                   * (w_with_innovation(m) - w_without_innovation(m))
               - PDen * m.development_costs))

\* merger_policy with the comparisons with h1 and h2 in the other order.
merger_policy_h2_before_h1(m) ==
    IF HScale * m.tolerated_harm <= calculate_h0(m) THEN "Strict"
    ELSE IF HScale * m.tolerated_harm < calculate_h2(m)
        THEN "Intermediate (late takeover allowed)"
    ELSE IF HScale * m.tolerated_harm < calculate_h1(m)
        THEN "Intermediate (late takeover prohibited)"
    ELSE "Laissez-faire"

\* MergerPolicyModel.merger_policy
merger_policy(m) ==
    IF HScale * m.tolerated_harm <= calculate_h0(m) THEN "Strict"
    ELSE IF HScale * m.tolerated_harm < calculate_h1(m)
        THEN "Intermediate (late takeover prohibited)"
    ELSE IF HScale * m.tolerated_harm < calculate_h2(m)
        THEN "Intermediate (late takeover allowed)"
    ELSE "Laissez-faire"

\* Gamma: numerator and denominator both multiplied by PDen (as below).
asset_distribution_threshold_strict(m) ==
    Quot(m.success_probability * Float(w_duopoly(m) - w_with_innovation(m)),
         Float(m.success_probability * Float(w_duopoly(m) - w_without_innovation(m))
                   - PDen * m.development_costs))

\* Phi
asset_distribution_threshold(m) ==
    Quot(m.success_probability
             * (m.incumbent_profit_with_innovation
                - m.incumbent_profit_duopoly - m.startup_profit_duopoly),
         m.success_probability
             * (m.incumbent_profit_with_innovation - m.incumbent_profit_duopoly)
             - PDen * m.development_costs)

\* Phi^T
asset_distribution_threshold_laissez_faire(m) ==
    Quot(m.success_probability
             * (m.incumbent_profit_without_innovation
                - m.incumbent_profit_with_innovation)
             + PDen * m.development_costs,
         m.success_probability
             * (m.incumbent_profit_without_innovation
                + m.startup_profit_duopoly
                - m.incumbent_profit_with_innovation))

\* Phi'
asset_distribution_threshold_intermediate(m) ==
    Quot(m.success_probability
             * (m.incumbent_profit_without_innovation
                - m.incumbent_profit_duopoly - m.startup_profit_duopoly)
             + PDen * m.development_costs,
         m.success_probability
             * (m.incumbent_profit_without_innovation - m.incumbent_profit_duopoly))

\* p * (pi^M_I - pi^m_I) - K, times PDen
incumbent_expected_additional_profit_from_innovation(m) ==
    m.success_probability
        * (m.incumbent_profit_with_innovation
           - m.incumbent_profit_without_innovation)
        - PDen * m.development_costs

is_incumbent_expected_to_shelve(m) ==
    incumbent_expected_additional_profit_from_innovation(m) < 0

\* 0 < q < 1 and 0 <= q < 1 for a quotient q
InOpenUnit(q) == QLt(Quot(0, 1), q) /\ QLt(q, Quot(1, 1))
InHalfOpenUnit(q) == QGe(q, Quot(0, 1)) /\ QLt(q, Quot(1, 1))

DivisionByZero == "float division by zero"

\* MergerPolicyModel._check_asset_distribution_thresholds: the message of
\* the failed assertion, DivisionByZero when a threshold cannot be
\* computed, "" when the check passes.
check_asset_distribution_thresholds(m) ==
    LET policy == merger_policy(m) IN
    IF asset_distribution_threshold(m)[2] = 0 THEN DivisionByZero
    ELSE IF ~InOpenUnit(asset_distribution_threshold(m))
        THEN "Violates A.2 (has to be between 0 and 1)"
    ELSE IF policy = "Strict"
        THEN IF asset_distribution_threshold_strict(m)[2] = 0 THEN DivisionByZero
             ELSE IF ~InOpenUnit(asset_distribution_threshold_strict(m))
                 THEN "Violates Condition 2 (has to be between 0 and 1)"
             ELSE ""
    ELSE IF /\ policy = "Intermediate (late takeover prohibited)"
            /\ is_incumbent_expected_to_shelve(m)
        THEN IF asset_distribution_threshold_intermediate(m)[2] = 0
                 THEN DivisionByZero
             ELSE IF ~InHalfOpenUnit(asset_distribution_threshold_intermediate(m))
                 THEN "Violates Condition A-3 (has to be between 0 and 1)"
             ELSE ""
    ELSE IF /\ policy = "Laissez-faire"
            /\ is_incumbent_expected_to_shelve(m)
        THEN IF asset_distribution_threshold_laissez_faire(m)[2] = 0
                 THEN DivisionByZero
             ELSE IF ~InOpenUnit(asset_distribution_threshold_laissez_faire(m))
                 THEN "Violates Condition 4 (has to be between 0 and 1)"
             ELSE ""
    ELSE ""

\* is_startup_credit_rationed rationing also a startup whose assets equal
\* the threshold.
is_startup_credit_rationed_at_threshold(m) ==
    IF merger_policy(m) \in {"Strict", "Intermediate (late takeover prohibited)"}
        THEN PDen * m.startup_assets <= asset_threshold(m)
        ELSE PDen * m.startup_assets <= asset_threshold_late_takeover(m)

\* MergerPolicyModel.is_startup_credit_rationed
is_startup_credit_rationed(m) ==
    IF merger_policy(m) \in {"Strict", "Intermediate (late takeover prohibited)"}
        THEN PDen * m.startup_assets < asset_threshold(m)
        ELSE PDen * m.startup_assets < asset_threshold_late_takeover(m)

----------------------------------------------------------------------------
\* MergerPolicyModel (Models.py): solving the game.
\* The four outcome fields of an object are a record f; f.error is the
\* message of a failed assertion inside _set_takeovers ("" when none).

\* The fields as MergerPolicyModel.__init__ leaves them before solving.
UnsolvedFields ==
    [early_bid_attempt |-> None, late_bid_attempt |-> None,
     early_takeover |-> None, late_takeover |-> None, error |-> ""]

\* Literal["No", "Separating", "Pooling"], the bids _set_takeovers takes
Takeover == {"No", "Separating", "Pooling"}

FieldsNotNone == "assert on outcome fields being None failed"

\* _set_takeovers taking every early bid as accepted.
set_takeovers_bid_always_accepted(f, early_takeover_, late_takeover_, early_takeover_accepted, late_takeover_accepted) ==
    IF ~(f.early_bid_attempt = None /\ f.early_takeover = None)
        THEN [f EXCEPT !.error = FieldsNotNone]
    ELSE IF ~(f.late_bid_attempt = None /\ f.late_takeover = None)
        THEN [f EXCEPT !.error = FieldsNotNone]
    ELSE [early_bid_attempt |-> Some(early_takeover_),
          late_bid_attempt  |-> Some(late_takeover_),
          early_takeover    |-> Some(IF early_takeover_ = "No" THEN FALSE ELSE TRUE),
          late_takeover     |->
              Some(IF late_takeover_ = "No" \/ ~late_takeover_accepted
                       THEN FALSE ELSE TRUE),
          error             |-> ""]

\* _set_takeovers recording the early bid before it tests that only one
\* takeover is asked for.
set_takeovers_early_bid_recorded_first(f, early_takeover_, late_takeover_, early_takeover_accepted, late_takeover_accepted) ==
    IF ~(f.early_bid_attempt = None /\ f.early_takeover = None)
        THEN [f EXCEPT !.error = FieldsNotNone]
    ELSE IF ~(f.late_bid_attempt = None /\ f.late_takeover = None)
        THEN [f EXCEPT !.error = FieldsNotNone]
    ELSE IF /\ early_takeover_ \in {"Separating", "Pooling"}
            /\ early_takeover_accepted
            /\ late_takeover_ \in {"Separating", "Pooling"}
            /\ late_takeover_accepted
        THEN [f EXCEPT !.early_bid_attempt = Some(early_takeover_),
                       !.early_takeover = Some(TRUE),
                       !.error = "Only one takeover can occur."]
    ELSE [early_bid_attempt |-> Some(early_takeover_),
          late_bid_attempt  |-> Some(late_takeover_),
          early_takeover    |->
              Some(IF early_takeover_ = "No" \/ ~early_takeover_accepted
                       THEN FALSE ELSE TRUE),
          late_takeover     |->
              Some(IF late_takeover_ = "No" \/ ~late_takeover_accepted
                       THEN FALSE ELSE TRUE),
          error             |-> ""]

\* MergerPolicyModel._set_takeovers
set_takeovers(f, early_takeover_, late_takeover_, early_takeover_accepted, late_takeover_accepted) ==
    IF ~(f.early_bid_attempt = None /\ f.early_takeover = None)
        THEN [f EXCEPT !.error = FieldsNotNone]
    ELSE IF ~(f.late_bid_attempt = None /\ f.late_takeover = None)
        THEN [f EXCEPT !.error = FieldsNotNone]
    ELSE IF /\ early_takeover_ \in {"Separating", "Pooling"}
            /\ early_takeover_accepted
            /\ late_takeover_ \in {"Separating", "Pooling"}
            /\ late_takeover_accepted
        THEN [f EXCEPT !.error = "Only one takeover can occur."]
    ELSE [early_bid_attempt |-> Some(early_takeover_),
          late_bid_attempt  |-> Some(late_takeover_),
          early_takeover    |->
              Some(IF early_takeover_ = "No" \/ ~early_takeover_accepted
                       THEN FALSE ELSE TRUE),
          late_takeover     |->
              Some(IF late_takeover_ = "No" \/ ~late_takeover_accepted
                       THEN FALSE ELSE TRUE),
          error             |-> ""]

\* _solve_game_laissez_faire without the comparison of F(A-bar^T) with
\* Phi^T: an incumbent expected to shelve never bids early.
solve_game_laissez_faire_without_threshold(m, f) ==
    IF is_incumbent_expected_to_shelve(m)
    THEN IF ~is_startup_credit_rationed(m) /\ m.development_success
         THEN set_takeovers(f, "No", "Pooling", TRUE, TRUE)
         ELSE set_takeovers(f, "No", "No", TRUE, TRUE)
    ELSE IF is_startup_credit_rationed(m)
         THEN set_takeovers(f, "Separating", "No", TRUE, TRUE)
         ELSE IF m.development_success
              THEN set_takeovers(f, "Separating", "Pooling", FALSE, TRUE)
              ELSE set_takeovers(f, "Separating", "No", FALSE, TRUE)

\* _solve_game_laissez_faire with the early bid of an incumbent that is
\* not expected to shelve made only when the development succeeds.
solve_game_laissez_faire_early_bid_by_success(m, f) ==
    IF is_incumbent_expected_to_shelve(m)
    THEN IF QGe(Quot(asset_threshold_late_takeover_cdf(m), FScale),
                asset_distribution_threshold_laissez_faire(m))
         THEN IF ~is_startup_credit_rationed(m) /\ m.development_success
              THEN set_takeovers(f, "No", "Pooling", TRUE, TRUE)
              ELSE set_takeovers(f, "No", "No", TRUE, TRUE)
         ELSE set_takeovers(f, "Pooling", "No", TRUE, TRUE)
    ELSE IF is_startup_credit_rationed(m)
         THEN set_takeovers(f, "Separating", "No", TRUE, TRUE)
         ELSE IF m.development_success
              THEN set_takeovers(f, "Separating", "Pooling", FALSE, TRUE)
              ELSE set_takeovers(f, "No", "No", FALSE, TRUE)

\* MergerPolicyModel._solve_game_laissez_faire
solve_game_laissez_faire(m, f) ==
    IF is_incumbent_expected_to_shelve(m)
    THEN IF QGe(Quot(asset_threshold_late_takeover_cdf(m), FScale),
                asset_distribution_threshold_laissez_faire(m))
         THEN IF ~is_startup_credit_rationed(m) /\ m.development_success
              THEN set_takeovers(f, "No", "Pooling", TRUE, TRUE)
              ELSE set_takeovers(f, "No", "No", TRUE, TRUE)
         ELSE set_takeovers(f, "Pooling", "No", TRUE, TRUE)
    ELSE IF is_startup_credit_rationed(m)
         THEN set_takeovers(f, "Separating", "No", TRUE, TRUE)
         ELSE IF m.development_success
              THEN set_takeovers(f, "Separating", "Pooling", FALSE, TRUE)
              ELSE set_takeovers(f, "Separating", "No", FALSE, TRUE)

\* _solve_game_late_takeover_allowed bidding late whatever the result of
\* the development.
solve_game_late_takeover_allowed_without_success(m, f) ==
    IF is_incumbent_expected_to_shelve(m)
    THEN IF ~is_startup_credit_rationed(m)
         THEN set_takeovers(f, "No", "Pooling", TRUE, TRUE)
         ELSE set_takeovers(f, "No", "No", TRUE, TRUE)
    ELSE IF is_startup_credit_rationed(m)
         THEN set_takeovers(f, "Separating", "No", TRUE, TRUE)
         ELSE set_takeovers(f, "Separating", "Pooling", FALSE, TRUE)

\* _solve_game_late_takeover_allowed with an incumbent expected to shelve
\* bidding at neither date.
solve_game_late_takeover_allowed_no_bid_when_shelving(m, f) ==
    IF is_incumbent_expected_to_shelve(m)
    THEN set_takeovers(f, "No", "No", TRUE, TRUE)
    ELSE IF is_startup_credit_rationed(m)
         THEN set_takeovers(f, "Separating", "No", TRUE, TRUE)
         ELSE IF m.development_success
              THEN set_takeovers(f, "Separating", "Pooling", FALSE, TRUE)
              ELSE set_takeovers(f, "Separating", "No", FALSE, TRUE)

\* _solve_game_late_takeover_allowed with an incumbent expected to shelve
\* bidding early for every startup.
solve_game_late_takeover_allowed_pooling_when_shelving(m, f) ==
    IF is_incumbent_expected_to_shelve(m)
    THEN set_takeovers(f, "Pooling", "No", TRUE, TRUE)
    ELSE IF is_startup_credit_rationed(m)
         THEN set_takeovers(f, "Separating", "No", TRUE, TRUE)
         ELSE IF m.development_success
              THEN set_takeovers(f, "Separating", "Pooling", FALSE, TRUE)
              ELSE set_takeovers(f, "Separating", "No", FALSE, TRUE)

\* MergerPolicyModel._solve_game_late_takeover_allowed
solve_game_late_takeover_allowed(m, f) ==
    IF is_incumbent_expected_to_shelve(m)
    THEN IF ~is_startup_credit_rationed(m) /\ m.development_success
         THEN set_takeovers(f, "No", "Pooling", TRUE, TRUE)
         ELSE set_takeovers(f, "No", "No", TRUE, TRUE)
    ELSE IF is_startup_credit_rationed(m)
         THEN set_takeovers(f, "Separating", "No", TRUE, TRUE)
         ELSE IF m.development_success
              THEN set_takeovers(f, "Separating", "Pooling", FALSE, TRUE)
              ELSE set_takeovers(f, "Separating", "No", FALSE, TRUE)

\* _solve_game_late_takeover_prohibited with the Separating bid accepted by
\* every startup.
solve_game_late_takeover_prohibited_separating_accepted(m, f) ==
    IF is_incumbent_expected_to_shelve(m)
    THEN IF QGe(Quot(asset_threshold_cdf(m), FScale),
                asset_distribution_threshold_intermediate(m))
         THEN set_takeovers(f, "No", "No", TRUE, TRUE)
         ELSE set_takeovers(f, "Pooling", "No", TRUE, TRUE)
    ELSE IF QGe(Quot(asset_threshold_cdf(m), FScale),
                asset_distribution_threshold(m))
         THEN set_takeovers(f, "Separating", "No", TRUE, TRUE)
         ELSE set_takeovers(f, "Pooling", "No", TRUE, TRUE)

\* _solve_game_late_takeover_prohibited bidding as if the incumbent were
\* never expected to shelve.
solve_game_late_takeover_prohibited_shelving_ignored(m, f) ==
    IF QGe(Quot(asset_threshold_cdf(m), FScale),
           asset_distribution_threshold(m))
    THEN IF is_startup_credit_rationed(m)
         THEN set_takeovers(f, "Separating", "No", TRUE, TRUE)
         ELSE set_takeovers(f, "Separating", "No", FALSE, TRUE)
    ELSE set_takeovers(f, "Pooling", "No", TRUE, TRUE)

\* MergerPolicyModel._solve_game_late_takeover_prohibited
solve_game_late_takeover_prohibited(m, f) ==
    IF is_incumbent_expected_to_shelve(m)
    THEN IF QGe(Quot(asset_threshold_cdf(m), FScale),
                asset_distribution_threshold_intermediate(m))
         THEN set_takeovers(f, "No", "No", TRUE, TRUE)
         ELSE set_takeovers(f, "Pooling", "No", TRUE, TRUE)
    ELSE IF QGe(Quot(asset_threshold_cdf(m), FScale),
                asset_distribution_threshold(m))
         THEN IF is_startup_credit_rationed(m)
              THEN set_takeovers(f, "Separating", "No", TRUE, TRUE)
              ELSE set_takeovers(f, "Separating", "No", FALSE, TRUE)
         ELSE set_takeovers(f, "Pooling", "No", TRUE, TRUE)

\* _solve_game_strict_merger_policy returning without a call of
\* _set_takeovers when the incumbent is expected to shelve.
solve_game_strict_merger_policy_shelving_unset(m, f) ==
    IF is_incumbent_expected_to_shelve(m)
    THEN f
    ELSE IF /\ QLt(asset_distribution_threshold_strict(m),
                   Quot(asset_threshold_cdf(m), FScale))
            /\ QLt(Quot(asset_threshold_cdf(m), FScale),
                   QMax(asset_distribution_threshold(m),
                        asset_distribution_threshold_strict(m)))
         THEN set_takeovers(f, "Pooling", "No", TRUE, TRUE)
         ELSE IF is_startup_credit_rationed(m)
              THEN set_takeovers(f, "Separating", "No", TRUE, TRUE)
              ELSE set_takeovers(f, "Separating", "No", FALSE, TRUE)

\* _solve_game_strict_merger_policy comparing F(A-bar) with max(Phi, Gamma)
\* only.
solve_game_strict_merger_policy_without_lower_bound(m, f) ==
    IF is_incumbent_expected_to_shelve(m)
    THEN set_takeovers(f, "No", "No", TRUE, TRUE)
    ELSE IF QLt(Quot(asset_threshold_cdf(m), FScale),
                QMax(asset_distribution_threshold(m),
                     asset_distribution_threshold_strict(m)))
         THEN set_takeovers(f, "Pooling", "No", TRUE, TRUE)
         ELSE IF is_startup_credit_rationed(m)
              THEN set_takeovers(f, "Separating", "No", TRUE, TRUE)
              ELSE set_takeovers(f, "Separating", "No", FALSE, TRUE)

\* MergerPolicyModel._solve_game_strict_merger_policy
solve_game_strict_merger_policy(m, f) ==
    IF is_incumbent_expected_to_shelve(m)
    THEN set_takeovers(f, "No", "No", TRUE, TRUE)
    ELSE IF /\ QLt(asset_distribution_threshold_strict(m),
                   Quot(asset_threshold_cdf(m), FScale))
            /\ QLt(Quot(asset_threshold_cdf(m), FScale),
                   QMax(asset_distribution_threshold(m),
                        asset_distribution_threshold_strict(m)))
         THEN set_takeovers(f, "Pooling", "No", TRUE, TRUE)
         ELSE IF is_startup_credit_rationed(m)
              THEN set_takeovers(f, "Separating", "No", TRUE, TRUE)
              ELSE set_takeovers(f, "Separating", "No", FALSE, TRUE)

\* _solve_game solving the policy that prohibits late takeovers as the one
\* that allows them.
solve_game_prohibition_ignored(m, f) ==
    LET policy == merger_policy(m) IN
    IF policy = "Strict" THEN solve_game_strict_merger_policy(m, f)
    ELSE IF policy = "Intermediate (late takeover prohibited)"
        THEN solve_game_late_takeover_allowed(m, f)
    ELSE IF policy = "Intermediate (late takeover allowed)"
        THEN solve_game_late_takeover_allowed(m, f)
    ELSE solve_game_laissez_faire(m, f)

\* MergerPolicyModel._solve_game
solve_game(m, f) ==
    LET policy == merger_policy(m) IN
    IF policy = "Strict" THEN solve_game_strict_merger_policy(m, f)
    ELSE IF policy = "Intermediate (late takeover prohibited)"
        THEN solve_game_late_takeover_prohibited(m, f)
    ELSE IF policy = "Intermediate (late takeover allowed)"
        THEN solve_game_late_takeover_allowed(m, f)
    ELSE solve_game_laissez_faire(m, f)

\* The kind of exception a message belongs to.
ErrorKind(msg) ==
    IF msg = DivisionByZero THEN "ZeroDivisionError" ELSE "AssertionError"

\* MergerPolicyModel.__init__: BaseModel.__init__, the outcome fields set
\* to None, the threshold checks, then the game is solved.  The result is
\* the fields of the object with the message of the error that ended the
\* constructor ("" when the object is constructed).
MergerPolicyModel_init(m) ==
    LET invalid  == BaseModel_init(m)
        violated == check_asset_distribution_thresholds(m)
    IN  IF invalid # "" THEN [UnsolvedFields EXCEPT !.error = invalid]
        ELSE IF violated # "" THEN [UnsolvedFields EXCEPT !.error = violated]
        ELSE solve_game(m, UnsolvedFields)

----------------------------------------------------------------------------
\* MergerPolicyModel (Models.py): the outcome of a solved object.

NotSolved == "AssertionError"

get_early_bidding_type(f) ==
    IF f.early_bid_attempt = None THEN NotSolved ELSE Value(f.early_bid_attempt)

get_late_bidding_type(f) ==
    IF f.late_bid_attempt = None THEN NotSolved ELSE Value(f.late_bid_attempt)

is_early_takeover(f) ==
    IF f.early_takeover = None THEN NotSolved ELSE Value(f.early_takeover)

is_late_takeover(f) ==
    IF f.late_takeover = None THEN NotSolved ELSE Value(f.late_takeover)

\* is_owner_investing with the first disjunct not restricted to the case
\* of no early takeover.
is_owner_investing_whenever_not_rationed(m, f) ==
    IF \/ ~is_startup_credit_rationed(m)
       \/ (~is_incumbent_expected_to_shelve(m) /\ is_early_takeover(f))
        THEN TRUE
        ELSE FALSE

\* MergerPolicyModel.is_owner_investing (f is a solved object's fields)
is_owner_investing(m, f) ==
    IF \/ (~is_startup_credit_rationed(m) /\ ~is_early_takeover(f))
       \/ (~is_incumbent_expected_to_shelve(m) /\ is_early_takeover(f))
        THEN TRUE
        ELSE FALSE

\* is_development_successful returning the flag alone.
is_development_successful_by_flag(m, f) == m.development_success

\* MergerPolicyModel.is_development_successful
is_development_successful(m, f) ==
    is_owner_investing(m, f) /\ m.development_success

\* MergerPolicyModel.summary
summary(m, f) ==
    [credit_rationed     |-> is_startup_credit_rationed(m),
     early_bidding_type  |-> get_early_bidding_type(f),
     late_bidding_type   |-> get_early_bidding_type(f),
     development_attempt |-> is_owner_investing(m, f),
     development_outcome |-> is_development_successful(m, f),
     early_takeover      |-> is_early_takeover(f),
     late_takeover       |-> is_late_takeover(f)]

----------------------------------------------------------------------------
\* OptimalMergerPolicy (Models.py)

\* Lambda, numerator and denominator multiplied by PDen
asset_distribution_threshold_intermediate_approval_despite_shelving(m) ==
    Quot(Float(m.success_probability
                   * (w_with_innovation(m) - w_without_innovation(m))
                   - PDen * m.development_costs
                   - PDen * Float(w_duopoly(m) - w_with_innovation(m))),
         m.success_probability
             * (w_with_innovation(m) - w_without_innovation(m))
             - PDen * m.development_costs)

is_shelving_after_early_takeover_optimal(m) ==
    QGe(Quot(asset_threshold_late_takeover_cdf(m), FScale),
        asset_distribution_threshold_intermediate_approval_despite_shelving(m))

is_financial_imperfection_severe(m) ==
    QGe(Quot(asset_threshold_late_takeover_cdf(m), FScale),
        asset_distribution_threshold_laissez_faire(m))

\* Condition 6
is_strict_optimal(m) ==
    QGe(Quot(Float(m.success_probability * Float(w_duopoly(m) - w_without_innovation(m))
                       - PDen * m.development_costs),
             m.success_probability
                 * (w_with_innovation(m) - w_without_innovation(m))
                 - PDen * m.development_costs),
        Quot(FScale - asset_threshold_late_takeover_cdf(m),
             FScale - asset_threshold_cdf(m)))

\* is_laissez_faire_optimal without the test of the incumbent's shelving.
is_laissez_faire_optimal_without_shelving_test(m) ==
    /\ is_financial_imperfection_severe(m)
    /\ is_shelving_after_early_takeover_optimal(m)
    /\ ~is_strict_optimal(m)

is_laissez_faire_optimal(m) ==
    /\ is_incumbent_expected_to_shelve(m)
    /\ is_financial_imperfection_severe(m)
    /\ is_shelving_after_early_takeover_optimal(m)
    /\ ~is_strict_optimal(m)

\* is_intermediate_optimal without the test of Condition 5.
is_intermediate_optimal_without_condition_five(m) ==
    /\ is_incumbent_expected_to_shelve(m)
    /\ ~is_strict_optimal(m)

is_intermediate_optimal(m) ==
    /\ is_incumbent_expected_to_shelve(m)
    /\ ~is_shelving_after_early_takeover_optimal(m)
    /\ ~is_strict_optimal(m)

get_optimal_merger_policy(m) ==
    IF is_laissez_faire_optimal(m) THEN "Laissez-faire"
    ELSE IF is_intermediate_optimal(m) THEN "Intermediate (late takeover allowed)"
    ELSE "Strict"

\* The error is_strict_optimal raises: a zero divisor on either side of
\* Condition 6 ("" when it returns).
is_strict_optimal_error(m) ==
    IF \/ m.success_probability * (w_with_innovation(m) - w_without_innovation(m))
              - PDen * m.development_costs = 0
       \/ FScale - asset_threshold_cdf(m) = 0
        THEN DivisionByZero
        ELSE ""

\* The error get_optimal_merger_policy raises ("" when it returns).  The
\* conditions of is_laissez_faire_optimal and is_intermediate_optimal are
\* evaluated from left to right and only as far as needed.
get_optimal_merger_policy_error(m) ==
    IF ~is_incumbent_expected_to_shelve(m) THEN ""
    ELSE IF asset_distribution_threshold_laissez_faire(m)[2] = 0 THEN DivisionByZero
    ELSE IF asset_distribution_threshold_intermediate_approval_despite_shelving(m)[2] = 0
        THEN DivisionByZero
    ELSE IF is_financial_imperfection_severe(m) THEN is_strict_optimal_error(m)
    ELSE IF ~is_shelving_after_early_takeover_optimal(m) THEN is_strict_optimal_error(m)
    ELSE ""

----------------------------------------------------------------------------
\* The setter of startup_assets used by the range sweeps (Visualize.py,
\* AssetRange._set_model_startup_assets).  As the specification describes
\* it: the new value is stored, the outcome fields are cleared, and the
\* regime classification and the decision procedure run again; when the
\* new value is rejected the call raises and changes nothing.  The result
\* is the parameters and the fields of the object after the call.

\* The setter storing the value without solving again.
set_startup_assets_without_resolve(m, f, value) ==
    [params |-> [m EXCEPT !.startup_assets = value],
     fields |-> [f EXCEPT !.error = ""]]

set_startup_assets(m, f, value) ==
    LET changed == [m EXCEPT !.startup_assets = value]
        solved  == MergerPolicyModel_init(changed)
    IN  IF solved.error # ""
            THEN [params |-> m, fields |-> [f EXCEPT !.error = solved.error]]
            ELSE [params |-> changed, fields |-> solved]

----------------------------------------------------------------------------
\* The parameter sets explored (money in units of 1/4).

MaxHarm == 3
MaxAssets == 5

\* Parameter sets for OptimalMergerPolicy: every regime and every branch of
\* the four solvers occurs among the accepted ones.
ParameterSets ==
    [tolerated_harm                      : 0..MaxHarm,
     development_costs                   : {3, 6},
     startup_assets                      : 1..MaxAssets,
     success_probability                 : {1, 2},
     development_success                 : BOOLEAN,
     private_benefit                     : 2..5,
     cs_without_innovation               : {0},
     incumbent_profit_without_innovation : 3..6,
     cs_duopoly                          : 8..9,
     incumbent_profit_duopoly            : 0..1,
     startup_profit_duopoly              : {7},
     cs_with_innovation                  : 3..6,
     incumbent_profit_with_innovation    : {9}]

\* Parameter sets for BaseModel: every check of the constructor fails for
\* some of them, and some pass all checks.
BaseParameterSets ==
    [tolerated_harm                      : -1..0,
     development_costs                   : {3},
     startup_assets                      : 0..3,
     success_probability                 : 0..3,
     development_success                 : {TRUE},
     private_benefit                     : 0..3,
     cs_without_innovation               : {0, 1},
     incumbent_profit_without_innovation : 1..5,
     cs_duopoly                          : 2..4,
     incumbent_profit_duopoly            : {0, 1},
     startup_profit_duopoly              : {4, 5},
     cs_with_innovation                  : 0..2,
     incumbent_profit_with_innovation    : {5, 6}]

\* Parameter sets in which the incumbent makes a loss in the duopoly; the
\* constructor has no test on the sign of a profit.
LossParameterSets ==
    [tolerated_harm                      : {0, 4},
     development_costs                   : {3},
     startup_assets                      : 1..2,
     success_probability                 : {2},
     development_success                 : BOOLEAN,
     private_benefit                     : {2, 3},
     cs_without_innovation               : {0},
     incumbent_profit_without_innovation : {1, 2},
     cs_duopoly                          : 3..6,
     incumbent_profit_duopoly            : {-2, -1},
     startup_profit_duopoly              : {4, 5},
     cs_with_innovation                  : 0..2,
     incumbent_profit_with_innovation    : 3..5]

----------------------------------------------------------------------------
\* The state machine.

fields ==
    [early_bid_attempt |-> early_bid_attempt, late_bid_attempt |-> late_bid_attempt,
     early_takeover |-> early_takeover, late_takeover |-> late_takeover,
     error |-> error]

NewObject ==
    /\ cls = "none"
    /\ status = "new"
    /\ error = ""
    /\ early_bid_attempt = None
    /\ late_bid_attempt = None
    /\ early_takeover = None
    /\ late_takeover = None
    /\ summary_result = None
    /\ optimal_policy = None

Init ==
    /\ params \in ParameterSets
    /\ NewObject

InitBase ==
    /\ params \in BaseParameterSets
    /\ NewObject

\* MergerPolicyModel.__init__ after the outcome fields are set to None and
\* the thresholds are checked, before _solve_game has called _set_takeovers.
\* _set_takeovers reads no parameter, so the accepted parameter sets with
\* the extreme harm and assets stand for all.
InitTakeovers ==
    /\ params \in {m \in ParameterSets :
                      /\ m.tolerated_harm \in {0, MaxHarm}
                      /\ m.startup_assets \in {1, MaxAssets}
                      /\ BaseModel_init(m) = ""
                      /\ check_asset_distribution_thresholds(m) = ""}
    /\ cls = "OptimalMergerPolicy"
    /\ status = "solving"
    /\ error = ""
    /\ early_bid_attempt = None
    /\ late_bid_attempt = None
    /\ early_takeover = None
    /\ late_takeover = None
    /\ summary_result = None
    /\ optimal_policy = None

\* The arguments at which get_cdf_value is the value of the distribution
\* function to the precision of FScale: the table and the saturated range.
Tabulated(value) ==
    \/ value \in -NormCdfHalfWidth..NormCdfHalfWidth
    \/ value >= NormCdfSaturation

\* Parameter sets with high development costs: the asset threshold A-bar
\* can reach the range in which the distribution function returns 1.0.
CostlyParameterSets ==
    {m \in [tolerated_harm                      : {0, 40, 400},
            development_costs                   : {36, 40},
            startup_assets                      : {1, 35},
            success_probability                 : {1, 2},
            development_success                 : BOOLEAN,
            private_benefit                     : {30, 35},
            cs_without_innovation               : {0},
            incumbent_profit_without_innovation : {30, 50},
            cs_duopoly                          : {100, 200},
            incumbent_profit_duopoly            : {0, 10},
            startup_profit_duopoly              : {37, 41, 75, 81},
            cs_with_innovation                  : {40, 80},
            incumbent_profit_with_innovation    : {60, 80, 120}] :
        /\ Tabulated(asset_threshold(m))
        /\ Tabulated(asset_threshold_late_takeover(m))}

InitCostly ==
    /\ params \in CostlyParameterSets
    /\ NewObject

\* Parameter sets whose consumer surplus in duopoly is of the magnitude at
\* which float sums absorb the other parameters.
LargeParameterSets ==
    [tolerated_harm                      : {0, 2},
     development_costs                   : {3, 6},
     startup_assets                      : {1, 3},
     success_probability                 : {1, 2},
     development_success                 : BOOLEAN,
     private_benefit                     : {2, 4},
     cs_without_innovation               : {0},
     incumbent_profit_without_innovation : 3..6,
     cs_duopoly                          : {8, Huge, 2 * Huge},
     incumbent_profit_duopoly            : 0..1,
     startup_profit_duopoly              : {7},
     cs_with_innovation                  : {3, 6},
     incumbent_profit_with_innovation    : {9}]

InitLarge ==
    /\ params \in LargeParameterSets
    /\ NewObject

InitLoss ==
    /\ params \in LossParameterSets
    /\ NewObject

\* A range sweep starts from a model constructed with the smallest assets.
InitSweep ==
    /\ params \in {m \in ParameterSets : m.startup_assets = 1}
    /\ NewObject

\* BaseModel(**params) of Models.py
BaseModelInit ==
    /\ status = "new"
    /\ cls' = "BaseModel"
    /\ \E r \in {BaseModel_init(params)} :
           /\ error' = r
           /\ status' = IF r = "" THEN "constructed" ELSE ErrorKind(r)
    /\ UNCHANGED <<params, early_bid_attempt, late_bid_attempt, early_takeover,
                   late_takeover, summary_result, optimal_policy>>

\* BaseModel(**params) of Model.py
Model_BaseModelInit ==
    /\ status = "new"
    /\ cls' = "Model.BaseModel"
    /\ \E r \in {Model_BaseModel_init(params)} :
           /\ error' = r
           /\ status' = IF r = "" THEN "constructed" ELSE ErrorKind(r)
    /\ UNCHANGED <<params, early_bid_attempt, late_bid_attempt, early_takeover,
                   late_takeover, summary_result, optimal_policy>>

\* OptimalMergerPolicy(**params): MergerPolicyModel.__init__
OptimalMergerPolicyInit ==
    /\ status = "new"
    /\ cls' = "OptimalMergerPolicy"
    /\ \E r \in {MergerPolicyModel_init(params)} :
           /\ error' = r.error
           /\ status' = IF r.error = "" THEN "constructed" ELSE ErrorKind(r.error)
           /\ early_bid_attempt' = r.early_bid_attempt
           /\ late_bid_attempt' = r.late_bid_attempt
           /\ early_takeover' = r.early_takeover
           /\ late_takeover' = r.late_takeover
    /\ UNCHANGED <<params, summary_result, optimal_policy>>

\* model.summary()
Summary ==
    /\ status = "constructed"
    /\ cls = "OptimalMergerPolicy"
    /\ \E r \in {summary(params, fields)} : summary_result' = Some(r)
    /\ UNCHANGED <<cls, status, error, params, early_bid_attempt, late_bid_attempt,
                   early_takeover, late_takeover, optimal_policy>>

\* model.get_optimal_merger_policy().  When the call raises, error is the
\* message of the exception and nothing is returned.
GetOptimalMergerPolicy ==
    /\ status = "constructed"
    /\ cls = "OptimalMergerPolicy"
    /\ \E e \in {get_optimal_merger_policy_error(params)} :
           /\ error' = IF e = "" THEN error ELSE e
           /\ optimal_policy' = IF e = "" THEN Some(get_optimal_merger_policy(params))
                                           ELSE optimal_policy
    /\ UNCHANGED <<cls, status, params, early_bid_attempt, late_bid_attempt,
                   early_takeover, late_takeover, summary_result>>

\* model._solve_game() called on a constructed model.  error is the
\* message of the exception the call raised ("" when it returned).
SolveGame ==
    /\ status = "constructed"
    /\ cls = "OptimalMergerPolicy"
    /\ \E r \in {solve_game(params, fields)} :
           /\ error' = r.error
           /\ early_bid_attempt' = r.early_bid_attempt
           /\ late_bid_attempt' = r.late_bid_attempt
           /\ early_takeover' = r.early_takeover
           /\ late_takeover' = r.late_takeover
    /\ UNCHANGED <<cls, status, params, summary_result, optimal_policy>>

\* model.startup_assets = value.  What summary() and
\* get_optimal_merger_policy() returned before describes the former
\* parameters and is dropped.
SetStartupAssets ==
    /\ status = "constructed"
    /\ cls = "OptimalMergerPolicy"
    /\ \E value \in 0..MaxAssets :
       \E r \in {set_startup_assets(params, fields, value)} :
           /\ params' = r.params
           /\ error' = r.fields.error
           /\ early_bid_attempt' = r.fields.early_bid_attempt
           /\ late_bid_attempt' = r.fields.late_bid_attempt
           /\ early_takeover' = r.fields.early_takeover
           /\ late_takeover' = r.fields.late_takeover
           /\ summary_result' = IF r.fields.error = "" THEN None ELSE summary_result
           /\ optimal_policy' = IF r.fields.error = "" THEN None ELSE optimal_policy
    /\ UNCHANGED <<cls, status>>

\* self._set_takeovers(early_takeover, late_takeover,
\*                      early_takeover_accepted, late_takeover_accepted)
\* with any arguments, on an object being solved or already solved.  The
\* status becomes the kind of the exception the call raises.
SetTakeovers ==
    /\ status \in {"solving", "constructed"}
    /\ cls = "OptimalMergerPolicy"
    /\ \E early_takeover_ \in Takeover, late_takeover_ \in Takeover :
       \E early_takeover_accepted \in BOOLEAN, late_takeover_accepted \in BOOLEAN :
       \E r \in {set_takeovers(fields, early_takeover_, late_takeover_,
                               early_takeover_accepted, late_takeover_accepted)} :
           /\ error' = r.error
           /\ status' = IF r.error = "" THEN "constructed" ELSE ErrorKind(r.error)
           /\ early_bid_attempt' = r.early_bid_attempt
           /\ late_bid_attempt' = r.late_bid_attempt
           /\ early_takeover' = r.early_takeover
           /\ late_takeover' = r.late_takeover
    /\ UNCHANGED <<cls, params, summary_result, optimal_policy>>

Next ==
    \/ OptimalMergerPolicyInit
    \/ Summary
    \/ GetOptimalMergerPolicy
    \/ SolveGame

Spec == Init /\ [][Next]_vars

\* A range sweep: the model is constructed, then its assets are set and
\* its summary is taken, again and again.
NextSweep ==
    \/ OptimalMergerPolicyInit
    \/ SetStartupAssets
    \/ Summary

SpecSweep == InitSweep /\ [][NextSweep]_vars

\* The outcome-setting operation on its own.
NextTakeovers == SetTakeovers

SpecTakeovers == InitTakeovers /\ [][NextTakeovers]_vars

\* Construction from parameter sets with a loss-making incumbent.
NextLarge ==
    \/ BaseModelInit
    \/ OptimalMergerPolicyInit

SpecLarge == InitLarge /\ [][NextLarge]_vars

NextLoss == OptimalMergerPolicyInit

SpecLoss == InitLoss /\ [][NextLoss]_vars

\* Construction and the optimal policy with high development costs.
NextCostly ==
    \/ OptimalMergerPolicyInit
    \/ GetOptimalMergerPolicy

SpecCostly == InitCostly /\ [][NextCostly]_vars

NextBase ==
    \/ BaseModelInit
    \/ Model_BaseModelInit

SpecBase == InitBase /\ [][NextBase]_vars

----------------------------------------------------------------------------
\* Properties.

Solved == cls = "OptimalMergerPolicy" /\ status = "constructed"

\* C1: for every parameter set for which construction succeeds, the early
\* and the late takeover never both take place, and no call of
\* _set_takeovers by a regime solver fails the assertion "Only one takeover
\* can occur."
MutualExclusivity ==
    cls = "OptimalMergerPolicy" =>
        /\ error # "Only one takeover can occur."
        /\ status = "constructed" =>
               ~(is_early_takeover(fields) /\ is_late_takeover(fields))

\* C1 witness: a solved model with an early bid that was rejected followed
\* by a late takeover.
MutualExclusivityWitness ==
    /\ Solved
    /\ early_bid_attempt = Some("Separating")
    /\ early_takeover = Some(FALSE)
    /\ late_bid_attempt = Some("Pooling")
    /\ late_takeover = Some(TRUE)

\* The conditions of BaseModel as the documentation lists them.
AssumptionFive(m) ==
    /\ m.private_benefit < m.development_costs
    /\ PDen * m.private_benefit
           > m.success_probability * m.startup_profit_duopoly
             - PDen * m.development_costs

ValidParameters(m) ==
    /\ m.tolerated_harm >= 0
    /\ m.private_benefit > 0
    /\ m.success_probability > 0
    /\ m.success_probability <= PDen
    /\ m.startup_assets > 0
    /\ m.startup_assets < m.development_costs
    /\ m.incumbent_profit_without_innovation > m.incumbent_profit_duopoly
    /\ m.incumbent_profit_with_innovation > m.incumbent_profit_without_innovation
    /\ m.cs_with_innovation >= m.cs_without_innovation
    /\ m.incumbent_profit_with_innovation
           > m.incumbent_profit_duopoly + m.startup_profit_duopoly
    /\ m.startup_profit_duopoly
           > m.incumbent_profit_with_innovation
             - m.incumbent_profit_without_innovation
    /\ m.success_probability * m.startup_profit_duopoly
           > PDen * m.development_costs
    /\ AssumptionFive(m)
    /\ m.cs_without_innovation + m.incumbent_profit_without_innovation
           < m.cs_with_innovation + m.incumbent_profit_with_innovation
    /\ m.cs_with_innovation + m.incumbent_profit_with_innovation
           < m.cs_duopoly + m.startup_profit_duopoly + m.incumbent_profit_duopoly
    /\ m.success_probability
           * (m.cs_with_innovation + m.incumbent_profit_with_innovation
              - m.cs_without_innovation - m.incumbent_profit_without_innovation)
           > PDen * m.development_costs

\* C2: construction of BaseModel (Models.py) succeeds if and only if every
\* listed condition holds; a constructed model satisfies W^m < W^M < W^d,
\* and a parameter set violating a condition yields an error, not a model.
ConstructionIffValid ==
    cls = "BaseModel" =>
        /\ status = "constructed" <=> ValidParameters(params)
        /\ status = "AssertionError" <=> ~ValidParameters(params)
        /\ status = "constructed" =>
               /\ w_without_innovation(params) < w_with_innovation(params)
               /\ w_with_innovation(params) < w_duopoly(params)

\* C2 witness: a BaseModel was constructed.
ConstructionIffValidWitness ==
    /\ cls = "BaseModel"
    /\ status = "constructed"
    /\ ValidParameters(params)

\* C3: A5 is enforced two-sided by the constructor of BaseModel, in
\* Models.py and in Model.py: no model is constructed when B >= K or when
\* B <= p * pi^d_S - K.
AssumptionFiveEnforced ==
    (cls \in {"BaseModel", "Model.BaseModel"} /\ status = "constructed")
        => AssumptionFive(params)

\* The thresholds of tolerated harm, over HScale.
Harm == HScale * params.tolerated_harm
H0 == calculate_h0(params)
H1 == calculate_h1(params)
H2 == calculate_h2(params)

\* C4: the merger policy of a constructed model is Strict iff harm <= h0,
\* Intermediate (late takeover prohibited) iff h0 < harm < h1, Intermediate
\* (late takeover allowed) iff h1 <= harm < h2, Laissez-faire iff harm >= h2.
PolicyBoundaries ==
    Solved =>
        /\ merger_policy(params) = "Strict" <=> Harm <= H0
        /\ merger_policy(params) = "Intermediate (late takeover prohibited)"
               <=> (H0 < Harm /\ Harm < H1)
        /\ merger_policy(params) = "Intermediate (late takeover allowed)"
               <=> (H1 <= Harm /\ Harm < H2)
        /\ merger_policy(params) = "Laissez-faire" <=> Harm >= H2

\* C5: for every accepted parameter set the thresholds are ordered,
\* h0 <= h1 <= h2.
ThresholdsOrdered ==
    Solved => (H0 <= H1 /\ H1 <= H2)

\* C6 as claimed: the owner invests exactly when the startup is not
\* credit-rationed, or an early takeover occurred and the incumbent is not
\* expected to shelve.
OwnerInvestsUnlessRationed ==
    (Solved /\ summary_result # None) =>
        (Value(summary_result).development_attempt
            <=> \/ ~is_startup_credit_rationed(params)
                \/ (Value(early_takeover) /\ ~is_incumbent_expected_to_shelve(params)))

\* C6 amended: the owner invests exactly when there was no early takeover
\* and the startup is not credit-rationed, or there was an early takeover
\* and the incumbent is not expected to shelve.
OwnerInvests ==
    (Solved /\ summary_result # None) =>
        (Value(summary_result).development_attempt
            <=> IF Value(early_takeover)
                    THEN ~is_incumbent_expected_to_shelve(params)
                    ELSE ~is_startup_credit_rationed(params))

\* C6 witness: a killer acquisition; the startup is not credit-rationed,
\* the incumbent took it over early and shelves.
OwnerInvestsWitness ==
    /\ Solved
    /\ summary_result # None
    /\ early_takeover = Some(TRUE)
    /\ is_incumbent_expected_to_shelve(params)
    /\ ~is_startup_credit_rationed(params)
    /\ ~Value(summary_result).development_attempt

\* C7: the development is successful if and only if the owner invests and
\* the development_success flag is true; it never succeeds when the owner
\* does not invest.
DevelopmentSuccessful ==
    (Solved /\ summary_result # None) =>
        /\ Value(summary_result).development_outcome
               <=> (Value(summary_result).development_attempt
                    /\ params.development_success)
        /\ ~Value(summary_result).development_attempt
               => ~Value(summary_result).development_outcome

\* C7 witness: the flag is true and the owner does not invest.
DevelopmentSuccessfulWitness ==
    /\ Solved
    /\ summary_result # None
    /\ params.development_success
    /\ ~Value(summary_result).development_attempt
    /\ ~Value(summary_result).development_outcome

\* C8: every field of the record returned by summary() equals the property
\* of the model it is named after.
SummaryMatchesProperties ==
    (Solved /\ summary_result # None) =>
        /\ Value(summary_result).credit_rationed = is_startup_credit_rationed(params)
        /\ Value(summary_result).early_bidding_type = Value(early_bid_attempt)
        /\ Value(summary_result).late_bidding_type = Value(late_bid_attempt)
        /\ Value(summary_result).development_attempt
               = is_owner_investing(params, fields)
        /\ Value(summary_result).development_outcome
               = is_development_successful(params, fields)
        /\ Value(summary_result).early_takeover = Value(early_takeover)
        /\ Value(summary_result).late_takeover = Value(late_takeover)

\* C9: get_optimal_merger_policy() returns Laissez-faire if
\* is_laissez_faire_optimal(), else Intermediate (late takeover allowed) if
\* is_intermediate_optimal(), else Strict; never Intermediate (late takeover
\* prohibited); the two predicates are never both true, so testing them in
\* the other order gives the same result.
OptimalPolicyPriority ==
    (Solved /\ optimal_policy # None) =>
        /\ ~(is_laissez_faire_optimal(params) /\ is_intermediate_optimal(params))
        /\ Value(optimal_policy) # "Intermediate (late takeover prohibited)"
        /\ Value(optimal_policy) = "Laissez-faire"
               <=> is_laissez_faire_optimal(params)
        /\ Value(optimal_policy) = "Intermediate (late takeover allowed)"
               <=> is_intermediate_optimal(params)
        /\ Value(optimal_policy) = "Strict"
               <=> (~is_laissez_faire_optimal(params)
                    /\ ~is_intermediate_optimal(params))

\* C9 witness: a model for which the laissez-faire policy was returned.
OptimalPolicyPriorityWitness ==
    /\ Solved
    /\ optimal_policy = Some("Laissez-faire")
    /\ is_laissez_faire_optimal(params)

\* C10: the policy returned by get_optimal_merger_policy() agrees with the
\* predicates: Strict only when is_strict_optimal(), Intermediate (late
\* takeover allowed) only when is_intermediate_optimal(), Laissez-faire
\* only when is_laissez_faire_optimal().
OptimalPolicyAgreesWithPredicates ==
    (Solved /\ optimal_policy # None) =>
        /\ Value(optimal_policy) = "Strict" => is_strict_optimal(params)
        /\ Value(optimal_policy) = "Intermediate (late takeover allowed)"
               => is_intermediate_optimal(params)
        /\ Value(optimal_policy) = "Laissez-faire"
               => is_laissez_faire_optimal(params)

\* C11: whenever the incumbent is not expected to shelve,
\* get_optimal_merger_policy() returns Strict and neither
\* is_laissez_faire_optimal() nor is_intermediate_optimal() is true.
StrictWhenIncumbentInvests ==
    (Solved /\ optimal_policy # None /\ ~is_incumbent_expected_to_shelve(params)) =>
        /\ Value(optimal_policy) = "Strict"
        /\ ~is_laissez_faire_optimal(params)
        /\ ~is_intermediate_optimal(params)

\* C11 witness: the incumbent is not expected to shelve, Condition 6 fails,
\* and Strict was returned.
StrictWhenIncumbentInvestsWitness ==
    /\ Solved
    /\ ~is_incumbent_expected_to_shelve(params)
    /\ ~is_strict_optimal(params)
    /\ optimal_policy = Some("Strict")

\* C12: calling _solve_game again on a solved model, with the parameters
\* unchanged, completes without error and leaves the outcome fields as
\* they were after the first solve.
ResolveIdempotent ==
    [][SolveGame =>
          /\ error' = ""
          /\ early_bid_attempt' = early_bid_attempt
          /\ late_bid_attempt' = late_bid_attempt
          /\ early_takeover' = early_takeover
          /\ late_takeover' = late_takeover]_vars

ValidationMessages ==
    {"Level of harm has to be bigger than 0",
     "Private benefit has to be bigger than 0",
     "Success probability of development has to be between 0 and 1",
     "Startup has not enough assets for development",
     "Profit of the incumbent has to be bigger without the innovation than in the duopoly",
     "Profit of the incumbent has to be bigger with the innovation than without the innovation",
     "Consumer surplus with the innovation has to weakly bigger than without the innovation",
     "A1 not satisfied (p.7)", "A2 not satisfied (p.7)", "A3 not satisfied (p.8)",
     "A4 not satisfied (p.8)", "A5 not satisfied (p.8)",
     "Ranking of total welfare not valid (p.7)"}

\* The messages of internal-consistency failures: two takeovers to record,
\* outcome fields already set, a threshold outside the unit interval.
InternalMessages ==
    {"Only one takeover can occur.", FieldsNotNone,
     "Violates A.2 (has to be between 0 and 1)",
     "Violates Condition 2 (has to be between 0 and 1)",
     "Violates Condition A-3 (has to be between 0 and 1)",
     "Violates Condition 4 (has to be between 0 and 1)"}

\* C14: an internal-consistency failure is reported with an error kind
\* that no rejection of invalid input parameters uses.
InternalFailureKindDistinct ==
    error \in InternalMessages =>
        \A msg \in ValidationMessages : status # ErrorKind(msg)


\* C15: in every solved model an early takeover occurs exactly when the
\* early bid is Pooling, or Separating with a credit-rationed startup; a
\* late takeover occurs exactly when the late bid is Pooling, and the late
\* bid is never Separating.
TakeoverIffBidAccepted ==
    Solved =>
        /\ Value(early_takeover) <=>
               \/ Value(early_bid_attempt) = "Pooling"
               \/ /\ Value(early_bid_attempt) = "Separating"
                  /\ is_startup_credit_rationed(params)
        /\ Value(late_takeover) <=> Value(late_bid_attempt) = "Pooling"
        /\ Value(late_bid_attempt) # "Separating"

\* C15 witness: a Separating bid refused by a startup that is not
\* credit-rationed, under the policy that prohibits late takeovers.
TakeoverIffBidAcceptedWitness ==
    /\ Solved
    /\ merger_policy(params) = "Intermediate (late takeover prohibited)"
    /\ early_bid_attempt = Some("Separating")
    /\ ~is_startup_credit_rationed(params)
    /\ early_takeover = Some(FALSE)
    /\ late_takeover = Some(FALSE)


\* C16: under the Strict policy and under Intermediate (late takeover
\* prohibited) the late bidding type of a solved model is No and no late
\* takeover takes place.
NoLateTakeoverWhenProhibited ==
    (/\ Solved
     /\ merger_policy(params) \in {"Strict", "Intermediate (late takeover prohibited)"})
        => /\ get_late_bidding_type(fields) = "No"
           /\ is_late_takeover(fields) = FALSE

\* C16 witness: late takeovers prohibited, and a startup that was not
\* bought early has developed the product successfully.
NoLateTakeoverWhenProhibitedWitness ==
    /\ Solved
    /\ merger_policy(params) = "Intermediate (late takeover prohibited)"
    /\ early_takeover = Some(FALSE)
    /\ is_development_successful(params, fields)
    /\ late_bid_attempt = Some("No")
    /\ late_takeover = Some(FALSE)


\* C17: in every solved model a late bid other than No is made only if no
\* early takeover took place and the development was successful (the
\* owner invested and development_success is true); a late takeover implies
\* that the startup was not credit-rationed.
LateBidOnlyAfterSuccess ==
    Solved =>
        /\ Value(late_bid_attempt) # "No" =>
               /\ Value(early_takeover) = FALSE
               /\ is_owner_investing(params, fields)
               /\ params.development_success
               /\ is_development_successful(params, fields)
        /\ Value(late_takeover) =>
               /\ Value(late_bid_attempt) # "No"
               /\ ~is_startup_credit_rationed(params)

\* C17 witness: a late takeover after a refused early Separating bid, under
\* Intermediate (late takeover allowed).
LateBidOnlyAfterSuccessWitness ==
    /\ Solved
    /\ merger_policy(params) = "Intermediate (late takeover allowed)"
    /\ early_bid_attempt = Some("Separating")
    /\ early_takeover = Some(FALSE)
    /\ late_bid_attempt = Some("Pooling")
    /\ late_takeover = Some(TRUE)


\* C18: for every accepted parameter set the asset threshold with a
\* late-takeover prospect is strictly below the one without it, so a
\* startup whose assets are below the former (credit-rationed under
\* Laissez-faire / Intermediate (late takeover allowed)) also has them
\* below the latter (credit-rationed under Strict / Intermediate (late
\* takeover prohibited)).
LateTakeoverRelaxesFinancing ==
    Solved =>
        /\ asset_threshold_late_takeover(params) < asset_threshold(params)
        /\ \A allowed \in {[params EXCEPT !.tolerated_harm = 4]},
              prohibited \in {[params EXCEPT !.tolerated_harm = 0]} :
               (/\ MergerPolicyModel_init(allowed).error = ""
                /\ MergerPolicyModel_init(prohibited).error = ""
                /\ merger_policy(allowed) \in
                       {"Laissez-faire", "Intermediate (late takeover allowed)"}
                /\ merger_policy(prohibited) \in
                       {"Strict", "Intermediate (late takeover prohibited)"}
                /\ is_startup_credit_rationed(allowed))
                   => is_startup_credit_rationed(prohibited)


\* C19: a call of _set_takeovers that fails (outcome fields already set, or
\* an accepted early and an accepted late takeover asked for) modifies none
\* of the four outcome fields; a call that succeeds assigns all four.
SetTakeoversAllOrNothing ==
    [][SetTakeovers =>
           /\ error' # "" =>
                  /\ early_bid_attempt' = early_bid_attempt
                  /\ early_takeover' = early_takeover
                  /\ late_bid_attempt' = late_bid_attempt
                  /\ late_takeover' = late_takeover
           /\ error' = "" =>
                  /\ early_bid_attempt = None /\ early_bid_attempt' # None
                  /\ early_takeover = None /\ early_takeover' # None
                  /\ late_bid_attempt = None /\ late_bid_attempt' # None
                  /\ late_takeover = None /\ late_takeover' # None]_vars

\* C19 witness: the call asked for two takeovers on an unsolved object and
\* failed, and the four fields are still None.
SetTakeoversAllOrNothingWitness ==
    /\ cls = "OptimalMergerPolicy"
    /\ error = "Only one takeover can occur."
    /\ status = "AssertionError"
    /\ early_bid_attempt = None
    /\ early_takeover = None
    /\ late_bid_attempt = None
    /\ late_takeover = None


\* F(A-bar), Gamma and Phi of the current parameters.
FAssetThreshold == Quot(asset_threshold_cdf(params), FScale)
Gamma == asset_distribution_threshold_strict(params)
Phi == asset_distribution_threshold(params)

StrictNotShelving ==
    /\ Solved
    /\ merger_policy(params) = "Strict"
    /\ ~is_incumbent_expected_to_shelve(params)

\* C20 as stated: under the Strict policy with the incumbent not expected
\* to shelve, the early bid is Pooling (and the takeover completes) when
\* F(A-bar) < max(Phi, Gamma), and Separating otherwise, the Separating bid
\* completing a takeover exactly when the startup is credit-rationed.
StrictBidDecidedByMax ==
    StrictNotShelving =>
        IF QLt(FAssetThreshold, QMax(Phi, Gamma))
            THEN /\ early_bid_attempt = Some("Pooling")
                 /\ early_takeover = Some(TRUE)
            ELSE /\ early_bid_attempt = Some("Separating")
                 /\ Value(early_takeover) <=> is_startup_credit_rationed(params)

\* C20 amended: the early bid is Pooling (and the takeover completes)
\* exactly when Gamma < F(A-bar) < max(Phi, Gamma), and Separating
\* otherwise, the Separating bid completing a takeover exactly when the
\* startup is credit-rationed.
StrictBidDecidedByInterval ==
    StrictNotShelving =>
        IF QLt(Gamma, FAssetThreshold) /\ QLt(FAssetThreshold, QMax(Phi, Gamma))
            THEN /\ early_bid_attempt = Some("Pooling")
                 /\ early_takeover = Some(TRUE)
            ELSE /\ early_bid_attempt = Some("Separating")
                 /\ Value(early_takeover) <=> is_startup_credit_rationed(params)

\* C20 witness: F(A-bar) is below max(Phi, Gamma) but not above Gamma, and
\* the bid is Separating.
StrictBidDecidedByIntervalWitness ==
    /\ StrictNotShelving
    /\ QLt(FAssetThreshold, QMax(Phi, Gamma))
    /\ ~QLt(Gamma, FAssetThreshold)
    /\ early_bid_attempt = Some("Separating")


\* Phi' of the current parameters.
PhiPrime == asset_distribution_threshold_intermediate(params)

\* The four outcome fields as a tuple of bids and takeovers.
Outcome == <<Value(early_bid_attempt), Value(early_takeover), Value(late_bid_attempt), Value(late_takeover)>>

\* C21: under Intermediate (late takeover prohibited), with shelving
\* expected there is no bid at either date when F(A-bar) >= Phi' and an
\* early Pooling bid with completed takeover when F(A-bar) < Phi'; without
\* shelving expected the early bid is Separating when F(A-bar) >= Phi
\* (completed iff the startup is credit-rationed) and Pooling with
\* completed takeover when F(A-bar) < Phi.
LateTakeoverProhibitedOutcome ==
    (Solved /\ merger_policy(params) = "Intermediate (late takeover prohibited)") =>
        IF is_incumbent_expected_to_shelve(params)
            THEN IF QGe(FAssetThreshold, PhiPrime)
                     THEN Outcome = <<"No", FALSE, "No", FALSE>>
                     ELSE Outcome = <<"Pooling", TRUE, "No", FALSE>>
            ELSE IF QGe(FAssetThreshold, Phi)
                     THEN Outcome = <<"Separating", is_startup_credit_rationed(params), "No", FALSE>>
                     ELSE Outcome = <<"Pooling", TRUE, "No", FALSE>>

\* C21 witness: shelving expected and F(A-bar) below Phi', the early
\* Pooling bid completed.
LateTakeoverProhibitedOutcomeWitness ==
    /\ Solved
    /\ merger_policy(params) = "Intermediate (late takeover prohibited)"
    /\ is_incumbent_expected_to_shelve(params)
    /\ ~QGe(FAssetThreshold, PhiPrime)
    /\ Outcome = <<"Pooling", TRUE, "No", FALSE>>


\* F(A-bar^T) and Phi^T of the current parameters.
FAssetThresholdLateTakeover == Quot(asset_threshold_late_takeover_cdf(params), FScale)
PhiT == asset_distribution_threshold_laissez_faire(params)

\* The late bid of the claims: Pooling with completed takeover, or No.
LatePooling(made) == IF made THEN <<"Pooling", TRUE>> ELSE <<"No", FALSE>>

\* C22: under Laissez-faire, with shelving expected and F(A-bar^T) < Phi^T
\* the early bid is Pooling with completed takeover and no late bid; with
\* shelving expected and F(A-bar^T) >= Phi^T there is no early bid and the
\* late bid is Pooling (completed) exactly when the startup is not
\* credit-rationed and development_success is true; without shelving
\* expected the early bid is Separating, accepted exactly when the startup
\* is credit-rationed, and when it is refused the late bid is Pooling
\* (completed) exactly when development_success is true.
LaissezFaireOutcome ==
    (Solved /\ merger_policy(params) = "Laissez-faire") =>
        IF is_incumbent_expected_to_shelve(params)
            THEN IF QLt(FAssetThresholdLateTakeover, PhiT)
                     THEN Outcome = <<"Pooling", TRUE, "No", FALSE>>
                     ELSE Outcome = <<"No", FALSE>> \o
                              LatePooling(/\ ~is_startup_credit_rationed(params)
                                          /\ params.development_success)
            ELSE IF is_startup_credit_rationed(params)
                     THEN Outcome = <<"Separating", TRUE, "No", FALSE>>
                     ELSE Outcome = <<"Separating", FALSE>> \o
                              LatePooling(params.development_success)

\* C22 witness: shelving expected, F(A-bar^T) not below Phi^T, no early
\* bid and a completed late Pooling bid.
LaissezFaireOutcomeWitness ==
    /\ Solved
    /\ merger_policy(params) = "Laissez-faire"
    /\ is_incumbent_expected_to_shelve(params)
    /\ ~QLt(FAssetThresholdLateTakeover, PhiT)
    /\ Outcome = <<"No", FALSE, "Pooling", TRUE>>


\* The outcome tuple of a record of outcome fields.
OutcomeOf(f) == <<Value(f.early_bid_attempt), Value(f.early_takeover), Value(f.late_bid_attempt), Value(f.late_takeover)>>

\* The Laissez-faire case in which the incumbent bids early to shelve.
LaissezFaireEarlyPooling ==
    /\ is_incumbent_expected_to_shelve(params)
    /\ QLt(FAssetThresholdLateTakeover, PhiT)

\* C23: under Intermediate (late takeover allowed) the early bid is never
\* Pooling, and with shelving expected there is no early bid; a model with
\* the same parameters but a tolerated harm that makes it Laissez-faire
\* has the same outcome tuple, except in the Laissez-faire case 'shelving
\* expected and F(A-bar^T) < Phi^T'.
LateTakeoverAllowedMatchesLaissezFaire ==
    (Solved /\ merger_policy(params) = "Intermediate (late takeover allowed)") =>
        /\ Value(early_bid_attempt) # "Pooling"
        /\ is_incumbent_expected_to_shelve(params) => Value(early_bid_attempt) = "No"
        /\ \A h \in 0..(MaxHarm + 1) :
               \A lf \in {[params EXCEPT !.tolerated_harm = h]} :
                   merger_policy(lf) = "Laissez-faire" =>
                       \A r \in {MergerPolicyModel_init(lf)} :
                           /\ r.error = ""
                           /\ OutcomeOf(r) = Outcome <=> ~LaissezFaireEarlyPooling

\* C23 witness: Intermediate (late takeover allowed) with shelving
\* expected, a late takeover, and a larger tolerated harm in the explored
\* range that makes the same parameters Laissez-faire.
LateTakeoverAllowedMatchesLaissezFaireWitness ==
    /\ Solved
    /\ merger_policy(params) = "Intermediate (late takeover allowed)"
    /\ is_incumbent_expected_to_shelve(params)
    /\ ~LaissezFaireEarlyPooling
    /\ Outcome = <<"No", FALSE, "Pooling", TRUE>>
    /\ \E h \in 0..(MaxHarm + 1) :
           merger_policy([params EXCEPT !.tolerated_harm = h]) = "Laissez-faire"


\* A-bar = B - (p*pi^d_S - K) and A-bar^T = B - (p*pi^M_I - K), times PDen.
ABar ==
    PDen * params.private_benefit
        - params.success_probability * params.startup_profit_duopoly
        + PDen * params.development_costs
ABarT ==
    PDen * params.private_benefit
        - params.success_probability * params.incumbent_profit_with_innovation
        + PDen * params.development_costs

Divisors ==
    {asset_distribution_threshold_strict(params)[2],
     asset_distribution_threshold(params)[2],
     asset_distribution_threshold_intermediate(params)[2],
     asset_distribution_threshold_laissez_faire(params)[2],
     asset_distribution_threshold_intermediate_approval_despite_shelving(params)[2],
     params.success_probability
         * (w_with_innovation(params) - w_without_innovation(params))
         - PDen * params.development_costs}

\* C26: for every accepted parameter set the divisors of Gamma, Phi, Phi',
\* Phi^T, Lambda and of the left-hand side of Condition 6 are strictly
\* positive, and no threshold or optimality computation divides by zero.
NoDivisionByZero ==
    Solved =>
        /\ \A d \in Divisors : d > 0
        /\ error # DivisionByZero


\* The fields of a model constructed from the parameters of the object with
\* the development_success flag toggled.
Toggled ==
    MergerPolicyModel_init(
        [params EXCEPT !.development_success = ~params.development_success])

\* C27: two models that differ only in the development_success flag have
\* the same merger policy, the same credit-rationing status, the same early
\* bidding type, the same early takeover and the same investment decision;
\* the flag is not read by any of them.
DevelopmentSuccessOnlyLate ==
    Solved =>
        \A t \in {Toggled} :
        \A m \in {[params EXCEPT !.development_success = ~params.development_success]} :
            /\ t.error = ""
            /\ merger_policy(m) = merger_policy(params)
            /\ is_startup_credit_rationed(m) = is_startup_credit_rationed(params)
            /\ get_early_bidding_type(t) = Value(early_bid_attempt)
            /\ is_early_takeover(t) = Value(early_takeover)
            /\ is_owner_investing(m, t) = is_owner_investing(params, fields)

\* C27 witness: a solved model with a late takeover whose twin with the
\* flag toggled has no late bid and no successful development.
DevelopmentSuccessOnlyLateWitness ==
    /\ Solved
    /\ Value(late_takeover)
    /\ is_development_successful(params, fields)
    /\ get_late_bidding_type(Toggled) = "No"
    /\ ~is_late_takeover(Toggled)
    /\ ~is_development_successful(
           [params EXCEPT !.development_success = ~params.development_success],
           Toggled)


\* The place of a policy regime in the order from the strictest to the most
\* lenient.
Leniency(policy) ==
    IF policy = "Strict" THEN 0
    ELSE IF policy = "Intermediate (late takeover prohibited)" THEN 1
    ELSE IF policy = "Intermediate (late takeover allowed)" THEN 2
    ELSE 3

\* The levels of tolerated harm the regime of the object is compared at.
HarmLevels == 0..(MaxHarm + 1)

\* C28: with all other parameters fixed, raising tolerated_harm never moves
\* the model to a stricter regime, whatever the order of h0, h1 and h2.
RegimeMonotoneInHarm ==
    Solved =>
        \A h \in HarmLevels :
            h >= params.tolerated_harm =>
                Leniency(merger_policy([params EXCEPT !.tolerated_harm = h]))
                    >= Leniency(merger_policy(params))

\* C28 witness: a solved model under the Strict policy, with h2 below h1,
\* that a higher level of tolerated harm moves to Laissez-faire.
RegimeMonotoneInHarmWitness ==
    /\ Solved
    /\ merger_policy(params) = "Strict"
    /\ calculate_h2(params) < calculate_h1(params)
    /\ \E h \in HarmLevels :
           /\ h > params.tolerated_harm
           /\ merger_policy([params EXCEPT !.tolerated_harm = h]) = "Laissez-faire"


\* The four outcome fields are set and every accessor returns a value.
OutcomeSet ==
    /\ early_bid_attempt # None
    /\ late_bid_attempt # None
    /\ early_takeover # None
    /\ late_takeover # None
    /\ get_early_bidding_type(fields) \in Takeover
    /\ get_late_bidding_type(fields) \in Takeover
    /\ is_early_takeover(fields) \in BOOLEAN
    /\ is_late_takeover(fields) \in BOOLEAN

\* C29: the construction calls _set_takeovers exactly once on every path:
\* it never ends with the assertion of a second call (the fields are not
\* None), and after a successful construction the four outcome fields are
\* set and the accessors do not fail.
SetTakeoversExactlyOnce ==
    /\ [](Solved => OutcomeSet)
    /\ [][OptimalMergerPolicyInit =>
              /\ error' # FieldsNotNone
              /\ status' = "constructed" =>
                     /\ early_bid_attempt' # None
                     /\ late_bid_attempt' # None
                     /\ early_takeover' # None
                     /\ late_takeover' # None]_vars

\* C29 witness: a model constructed under the Strict policy with the
\* incumbent expected to shelve, whose solver makes no bid, has its four
\* fields set.
SetTakeoversExactlyOnceWitness ==
    /\ Solved
    /\ error = ""
    /\ merger_policy(params) = "Strict"
    /\ is_incumbent_expected_to_shelve(params)
    /\ OutcomeSet
    /\ get_early_bidding_type(fields) = "No"
    /\ get_late_bidding_type(fields) = "No"


\* A killer acquisition in the outcome f of a model with parameters m: the
\* early takeover is completed and the owner does not invest.
KillerAcquisition(m, f) ==
    /\ is_early_takeover(f) = TRUE
    /\ ~is_owner_investing(m, f)

\* C30: under Strict and under Intermediate (late takeover allowed) an
\* early takeover implies that the owner invests; under Strict with shelving
\* expected there is no bid at either date; a killer acquisition occurs only
\* under Intermediate (late takeover prohibited) or Laissez-faire, and only
\* after an early Pooling bid.
KillerAcquisitionOnlyByEarlyPooling ==
    Solved =>
        /\ merger_policy(params) \in {"Strict", "Intermediate (late takeover allowed)"} =>
               (Value(early_takeover) => is_owner_investing(params, fields))
        /\ (merger_policy(params) = "Strict" /\ is_incumbent_expected_to_shelve(params)) =>
               /\ Value(early_bid_attempt) = "No"
               /\ Value(late_bid_attempt) = "No"
        /\ KillerAcquisition(params, fields) =>
               /\ merger_policy(params) \in {"Intermediate (late takeover prohibited)",
                                            "Laissez-faire"}
               /\ Value(early_bid_attempt) = "Pooling"

\* C30 witness: a killer acquisition under Laissez-faire in a model that, at
\* another level of tolerated harm, is solved under Intermediate (late
\* takeover prohibited) with a killer acquisition too.
KillerAcquisitionOnlyByEarlyPoolingWitness ==
    /\ Solved
    /\ merger_policy(params) = "Laissez-faire"
    /\ KillerAcquisition(params, fields)
    /\ \E h \in HarmLevels :
       \E m \in {[params EXCEPT !.tolerated_harm = h]} :
       \E r \in {MergerPolicyModel_init(m)} :
           /\ r.error = ""
           /\ merger_policy(m) = "Intermediate (late takeover prohibited)"
           /\ KillerAcquisition(m, r)


\* C25: every parameter set accepted by BaseModel is accepted by the
\* constructor of the merger policy model: the range checks of the asset
\* distribution thresholds do not fail.
ThresholdChecksNeverFail ==
    (cls = "OptimalMergerPolicy" /\ status # "new" /\ BaseModel_init(params) = "") =>
        /\ status = "constructed"
        /\ check_asset_distribution_thresholds(params) = ""

====
